---- MODULE Spec2Model ----
(***************************************************************************)
(* fastapi-llms-txt: the registration function add_llms_txt (plugin.py)    *)
(* and the document generator LLMsTxtGenerator (generator.py), modelled    *)
(* over one host application: its route table, its tag list, the           *)
(* generators bound by the registration calls, the last operation's        *)
(* observable result, and the arguments the callers passed and still hold. *)
(*                                                                         *)
(* Python strings are TLA+ strings (Len, Head, Tail, SubSeq and \o act on  *)
(* their characters), so the f-strings of the source are concatenations    *)
(* here.  A rendered line is a record [part, text]: text is the string     *)
(* the source appends to content, part names the statement that appended   *)
(* it.  The body "\n".join(content) is kept as the sequence of its lines.  *)
(***************************************************************************)
EXTENDS Integers, Sequences, FiniteSets, TLC

\* ------------------------------------------------------------------ bounds
MaxSetups == 2
MaxUserRoutes == 2

\* --------------------------------------------------------------- constants
SERVE_LLMS_TXT == "serve_llms_txt"
DEFAULT_HTTP_METHOD == "GET"
LLMS_TXT_TAG == "LLMs.txt"
LLMS_TXT_ENDPOINT == "/llms.txt"

\* Python values that may be None are records, told apart by their fields:
\* None, a str, a list, a dict, and the host application object.
None == [py |-> "None"]
App == [py |-> "FastAPI"]
PyStr(s) == [str |-> s]
PyList(items) == [list |-> items]
PyDict(d) == [dict |-> d]
PyInt(n) == [int |-> n]
IsStr(v) == DOMAIN v = {"str"}
IsList(v) == DOMAIN v = {"list"}
IsDict(v) == DOMAIN v = {"dict"}

\* getattr(obj, name, default): an object is the record of its attributes
GetAttr(obj, name, default) == IF name \in DOMAIN obj THEN obj[name] ELSE default

\* ------------------------------------------------------------ str helpers
StartsWith(s, p) == Len(s) >= Len(p) /\ SubSeq(s, 1, Len(p)) = p

EndsWith(s, p) == Len(s) >= Len(p) /\ SubSeq(s, Len(s) - Len(p) + 1, Len(s)) = p

RECURSIVE Contains(_, _)
Contains(s, sub) ==
    IF Len(s) < Len(sub) THEN FALSE
    ELSE StartsWith(s, sub) \/ Contains(Tail(s), sub)

RECURSIVE SplitAcc(_, _, _)
SplitAcc(s, sep, cur) ==
    IF Len(s) = 0 THEN <<cur>>
    ELSE IF Head(s) = sep THEN <<cur>> \o SplitAcc(Tail(s), sep, "")
    ELSE SplitAcc(Tail(s), sep, cur \o Head(s))

\* str.split(sep) for a one-character separator
Split(s, sep) == SplitAcc(s, sep, "")

RECURSIVE Join(_, _)
Join(parts, sep) ==
    IF Len(parts) = 0 THEN ""
    ELSE IF Len(parts) = 1 THEN parts[1]
    ELSE parts[1] \o sep \o Join(Tail(parts), sep)

\* str.replace(old, new): left to right, non-overlapping
RECURSIVE Replace(_, _, _)
Replace(s, old, new) ==
    IF Len(s) = 0 THEN ""
    ELSE IF StartsWith(s, old)
         THEN new \o Replace(SubSeq(s, Len(old) + 1, Len(s)), old, new)
         ELSE Head(s) \o Replace(Tail(s), old, new)

Line(part, text) == [part |-> part, text |-> text]
Blank == Line("blank", "")

Texts(lines) == [i \in 1..Len(lines) |-> lines[i].text]

RECURSIVE Flatten(_)
Flatten(seqs) == IF Len(seqs) = 0 THEN <<>> ELSE Head(seqs) \o Flatten(Tail(seqs))

RECURSIVE SelectSeqIdx(_, _, _)
SelectSeqIdx(s, Keep(_), i) ==
    IF i > Len(s) THEN <<>>
    ELSE (IF Keep(s[i]) THEN <<s[i]>> ELSE <<>>) \o SelectSeqIdx(s, Keep, i + 1)

\* --------------------------------------------------------------- models.py
\* HttpUrl validation of pydantic: an http or https scheme and a host.
IsHttpUrl(u) ==
    \/ StartsWith(u, "http://") /\ Len(u) > Len("http://")
    \/ StartsWith(u, "https://") /\ Len(u) > Len("https://")

LinkItem(title, url) == [title |-> title, url |-> url]

ProjectDescription(title, summary, notes, sections) ==
    [title |-> title, summary |-> summary, notes |-> notes, sections |-> sections]

\* ------------------------------------------------------------ generator.py
LowerChars == "abcdefghijklmnopqrstuvwxyz"
UpperChars == "ABCDEFGHIJKLMNOPQRSTUVWXYZ"

RECURSIVE IndexOf(_, _, _)
IndexOf(c, alphabet, i) ==
    IF i > Len(alphabet) THEN 0
    ELSE IF SubSeq(alphabet, i, i) = c THEN i
    ELSE IndexOf(c, alphabet, i + 1)

ToUpper(c) ==
    LET i == IndexOf(c, LowerChars, 1) IN IF i = 0 THEN c ELSE SubSeq(UpperChars, i, i)

ToLower(c) ==
    LET i == IndexOf(c, UpperChars, 1) IN IF i = 0 THEN c ELSE SubSeq(LowerChars, i, i)

IsCased(c) == IndexOf(c, LowerChars, 1) > 0 \/ IndexOf(c, UpperChars, 1) > 0

RECURSIVE TitleAcc(_, _)
TitleAcc(s, previous_is_cased) ==
    IF Len(s) = 0 THEN ""
    ELSE (IF previous_is_cased THEN ToLower(Head(s)) ELSE ToUpper(Head(s)))
         \o TitleAcc(Tail(s), IsCased(Head(s)))

\* str.title()
Title(s) == TitleAcc(s, FALSE)

\* name.replace("_", " ").title()
Humanize(name) == Title(Replace(name, "_", " "))

\* _get_all_routes as it would be if it returned the newest route first
GetAllRoutesNewestFirst(gen, routes) ==
    IF gen.app = None THEN <<>>
    ELSE LET Keep(route) == route.cls = "APIRoute" /\ route.name /= SERVE_LLMS_TXT
             kept == SelectSeqIdx(routes, Keep, 1)
         IN [i \in 1..Len(kept) |-> kept[Len(kept) + 1 - i]]

\* _get_all_routes: the API routes of the live table, the reserved name dropped
GetAllRoutes(gen, routes) ==
    IF gen.app = None THEN <<>>
    ELSE LET Keep(route) == route.cls = "APIRoute" /\ route.name /= SERVE_LLMS_TXT
         IN SelectSeqIdx(routes, Keep, 1)

\* _get_endpoint_name as it would be if the placeholder segments of the path
\* were not left out
GetEndpointNameAnyPart(route) ==
    LET path == GetAttr(route, "path", "")
        func == GetAttr(route, "endpoint", None)
        func_name == IF func /= None THEN GetAttr(func, "name", "") ELSE ""
        IsPart(p) == p /= ""
        parts == SelectSeqIdx(Split(path, "/"), IsPart, 1)
    IN IF func_name = SERVE_LLMS_TXT THEN ""
       ELSE IF func_name /= "" /\ func_name /= SERVE_LLMS_TXT THEN Humanize(func_name)
       ELSE IF path /= "" /\ Len(parts) > 0 THEN Humanize(parts[Len(parts)])
       ELSE ""

\* _get_endpoint_name as it would be without the test for the handler that
\* serves the document
GetEndpointNameNoSelfTest(route) ==
    LET path == GetAttr(route, "path", "")
        func == GetAttr(route, "endpoint", None)
        func_name == IF func /= None THEN GetAttr(func, "name", "") ELSE ""
        IsPart(p) == p /= "" /\ ~StartsWith(p, "{")
        parts == SelectSeqIdx(Split(path, "/"), IsPart, 1)
    IN IF func_name /= "" THEN Humanize(func_name)
       ELSE IF path /= "" /\ Len(parts) > 0 THEN Humanize(parts[Len(parts)])
       ELSE ""

\* _get_endpoint_name
GetEndpointName(route) ==
    LET path == GetAttr(route, "path", "")
        func == GetAttr(route, "endpoint", None)
        func_name == IF func /= None THEN GetAttr(func, "name", "") ELSE ""
        IsPart(p) == p /= "" /\ ~StartsWith(p, "{")
        parts == SelectSeqIdx(Split(path, "/"), IsPart, 1)
    IN IF func_name = SERVE_LLMS_TXT THEN ""
       ELSE IF func_name /= "" /\ func_name /= SERVE_LLMS_TXT THEN Humanize(func_name)
       ELSE IF path /= "" /\ Len(parts) > 0 THEN Humanize(parts[Len(parts)])
       ELSE ""

\* the names of the {name} segments as they would be if path_params were a
\* list: a repeated name kept every time
PathParamNamesRepeated(path_parts, seen) ==
    LET IsParam(part) == StartsWith(part, "{") /\ EndsWith(part, "}")
        params == SelectSeqIdx(path_parts, IsParam, 1)
    IN [i \in 1..Len(params) |-> SubSeq(params[i], 2, Len(params[i]) - 1)]

\* the names of the {name} segments of a path, as the keys of path_params:
\* in first-occurrence order, a repeated name kept once
RECURSIVE PathParamNames(_, _)
PathParamNames(path_parts, seen) ==
    IF Len(path_parts) = 0 THEN <<>>
    ELSE LET part == Head(path_parts)
             is_param == StartsWith(part, "{") /\ EndsWith(part, "}")
             param_name == IF is_param THEN SubSeq(part, 2, Len(part) - 1) ELSE ""
         IN IF is_param /\ param_name \notin seen
            THEN <<param_name>> \o PathParamNames(Tail(path_parts), seen \cup {param_name})
            ELSE PathParamNames(Tail(path_parts), seen)

PathParams(route_path) ==
    IF route_path /= "" /\ Contains(route_path, "{")
    THEN PathParamNames(Split(route_path, "/"), {})
    ELSE <<>>

PathParamInfo(param_name) ==
    [name |-> param_name, required |-> TRUE, type |-> "str",
     description |-> PyStr("Path parameter: " \o param_name)]

\* the type label as it would be if only a leading "typing." and an
\* enclosing class wrapper were removed
TypeStrOuterOnly(type_) ==
    LET unqualified == IF StartsWith(type_, "typing.")
                       THEN SubSeq(type_, Len("typing.") + 1, Len(type_))
                       ELSE type_
    IN IF StartsWith(unqualified, "<class '") /\ EndsWith(unqualified, "'>")
       THEN SubSeq(unqualified, Len("<class '") + 1, Len(unqualified) - Len("'>"))
       ELSE unqualified

\* str(type_) with the typing. prefix and the class wrapper removed
TypeStr(type_) ==
    Replace(Replace(Replace(type_, "typing.", ""), "<class '", ""), "'>", "")

Falsy(v) == v = None \/ v = PyStr("")

\* the entry as it would be if the path template decided the type and the
\* required flag of a parameter it names
DependantParamInfoPathFirst(param, path_params) ==
    LET field_info == GetAttr(param, "field_info", None)
        described == IF field_info /= None
                     THEN GetAttr(field_info, "description", PyStr(""))
                     ELSE PyStr("")
        is_path == \E i \in 1..Len(path_params) : path_params[i] = param.name
    IN [name |-> param.name,
        required |-> IF is_path THEN TRUE ELSE GetAttr(param, "required", FALSE),
        type |-> IF is_path THEN "str" ELSE TypeStr(GetAttr(param, "type_", "")),
        description |-> IF is_path /\ Falsy(described)
                        THEN PyStr("Path parameter: " \o param.name)
                        ELSE described]

\* the entry as it would be if a parameter without a required flag counted
\* as required
DependantParamInfoRequiredDefault(param, path_params) ==
    LET field_info == GetAttr(param, "field_info", None)
        described == IF field_info /= None
                     THEN GetAttr(field_info, "description", PyStr(""))
                     ELSE PyStr("")
        is_path == \E i \in 1..Len(path_params) : path_params[i] = param.name
        param_description ==
            IF is_path /\ Falsy(described)
            THEN PyStr("Path parameter: " \o param.name)
            ELSE described
    IN [name |-> param.name, required |-> GetAttr(param, "required", TRUE),
        type |-> TypeStr(GetAttr(param, "type_", "")), description |-> param_description]

\* the entry appended for one parameter of the dependant
DependantParamInfo(param, path_params) ==
    LET field_info == GetAttr(param, "field_info", None)
        described == IF field_info /= None
                     THEN GetAttr(field_info, "description", PyStr(""))
                     ELSE PyStr("")
        is_path == \E i \in 1..Len(path_params) : path_params[i] = param.name
        param_description ==
            IF is_path /\ Falsy(described)
            THEN PyStr("Path parameter: " \o param.name)
            ELSE described
    IN [name |-> param.name, required |-> GetAttr(param, "required", FALSE),
        type |-> TypeStr(GetAttr(param, "type_", "")), description |-> param_description]

\* _get_endpoint_params as it would be if the placeholders the dependant
\* does not name were listed before the dependant's parameters
GetEndpointParamsPathFirst(route) ==
    LET path_params == PathParams(GetAttr(route, "path", ""))
        route_dependant == GetAttr(route, "dependant", None)
        dependant_params ==
            IF route_dependant /= None THEN GetAttr(route_dependant, "params", <<>>) ELSE <<>>
        Named(param) == GetAttr(param, "name", "") /= ""
        named == SelectSeqIdx(dependant_params, Named, 1)
        params == [i \in 1..Len(named) |-> DependantParamInfo(named[i], path_params)]
        param_names == {named[i].name : i \in 1..Len(named)}
        Missing(name) == name \notin param_names
        rest == SelectSeqIdx(path_params, Missing, 1)
    IN [i \in 1..Len(rest) |-> PathParamInfo(rest[i])] \o params

\* _get_endpoint_params
GetEndpointParams(route) ==
    LET path_params == PathParams(GetAttr(route, "path", ""))
        route_dependant == GetAttr(route, "dependant", None)
        dependant_params ==
            IF route_dependant /= None THEN GetAttr(route_dependant, "params", <<>>) ELSE <<>>
        Named(param) == GetAttr(param, "name", "") /= ""
        named == SelectSeqIdx(dependant_params, Named, 1)
        params == [i \in 1..Len(named) |-> DependantParamInfo(named[i], path_params)]
        param_names == {named[i].name : i \in 1..Len(named)}
        Missing(name) == name \notin param_names
        rest == SelectSeqIdx(path_params, Missing, 1)
    IN params \o [i \in 1..Len(rest) |-> PathParamInfo(rest[i])]

\* f"{value}" of an optional str
Format(v) == IF v = None THEN "None" ELSE v.str

\* The grave accent that encloses a parameter name.  A TLA+ string cannot hold
\* that character; the circumflex, which no text of the model contains, stands for it.
BackTick == "^"

\* the line of a parameter as it would be if the label were chosen by the
\* presence of the flag, not its value
ParamLineAnyFlag(param) ==
    Line("param",
         "- " \o BackTick \o param.name \o BackTick \o " (" \o param.type \o ", "
         \o (IF "required" \in DOMAIN param THEN "required" ELSE "optional")
         \o "): " \o Format(param.description))

\* the line of one parameter (generator.py l.98-108)
ParamLine(param) ==
    Line("param",
         "- " \o BackTick \o param.name \o BackTick \o " (" \o param.type \o ", "
         \o (IF param.required THEN "required" ELSE "optional")
         \o "): " \o Format(param.description))

\* methods_str as it would be if only None took the default
MethodsStrNoneOnly(methods) ==
    IF methods /= None THEN Join(methods.list, ", ") ELSE DEFAULT_HTTP_METHOD

\* ", ".join(methods) if methods else DEFAULT_HTTP_METHOD
MethodsStr(methods) ==
    IF methods /= None /\ Len(methods.list) > 0
    THEN Join(methods.list, ", ")
    ELSE DEFAULT_HTTP_METHOD

\* the body of the loop of _generate_api_docs for one route that passed the name test
EndpointLines(route) ==
    LET path == GetAttr(route, "path", "")
        declared == GetAttr(route, "summary", "")
        summary == IF declared /= "" THEN declared ELSE GetEndpointName(route)
        description == GetAttr(route, "description", "")
        params == GetEndpointParams(route)
    IN IF path = "" THEN <<>>
       ELSE <<Line("endpoint",
                 "### " \o MethodsStr(GetAttr(route, "methods", PyList(<<>>))) \o " " \o path),
            Blank>>
            \o (IF summary /= "" THEN <<Line("ep_summary", summary), Blank>> ELSE <<>>)
            \o (IF description /= "" THEN <<Line("ep_description", description), Blank>> ELSE <<>>)
            \o (IF Len(params) > 0
                THEN <<Line("params_header", "**Parameters:**"), Blank>>
                     \o [i \in 1..Len(params) |-> ParamLine(params[i])]
                     \o <<Blank>>
                ELSE <<>>)

\* The routes a host registers (tests/test_generator.py, tests/test_plugin.py).
Function(name, generator) == [py |-> "function", name |-> name, generator |-> generator]

FieldInfo(description) == [description |-> description]
Param(name, required, type_, field_info) ==
    [name |-> name, required |-> required, type_ |-> type_, field_info |-> field_info]

UserRoute ==
    [cls |-> "APIRoute", name |-> "get_user", path |-> "/users/{user_id}",
     methods |-> PyList(<<"GET">>), summary |-> "Get User",
     description |-> "Get user by ID", endpoint |-> Function("get_user", 0),
     dependant |-> [params |-> <<Param("user_id", TRUE, "<class 'int'>",
                                       FieldInfo(PyStr("The ID of the user")))>>]]

ItemsRoute ==
    [cls |-> "APIRoute", name |-> "list_items", path |-> "/api/v1/items",
     methods |-> PyList(<<"GET", "POST">>), summary |-> "", description |-> "",
     endpoint |-> Function("list_items", 0),
     dependant |-> [params |-> <<Param("skip", FALSE, "<class 'int'>", FieldInfo(None))>>]]

EmptyPathRoute ==
    [cls |-> "APIRoute", name |-> "root", path |-> "",
     methods |-> PyList(<<"GET">>), summary |-> "Root", description |-> "",
     endpoint |-> Function("root", 0), dependant |-> [params |-> <<>>]]

\* a handler of the host's own that carries the reserved name
ReservedNameRoute ==
    [cls |-> "APIRoute", name |-> "serve_llms_txt", path |-> "/mine",
     methods |-> PyList(<<"GET">>), summary |-> "Mine", description |-> "",
     endpoint |-> Function("serve_llms_txt", 0), dependant |-> [params |-> <<>>]]

\* an entry of the framework's own (the schema route; a mount is excluded by
\* the same test): no APIRoute
OpenApiRoute ==
    [cls |-> "Route", name |-> "openapi", path |-> "/openapi.json",
     methods |-> PyList(<<"GET", "HEAD">>), summary |-> "", description |-> "",
     endpoint |-> Function("openapi", 0), dependant |-> None]

HostRoutes ==
    {UserRoute, ItemsRoute, EmptyPathRoute, ReservedNameRoute, OpenApiRoute}

\* The routes of the generator's tests (MockRoute, MockDependant, MockParam):
\* objects that have any of the attributes the generator reads, or lack them.
\* A case holds the attribute values, the names of the attributes the object
\* lacks and, beside them, what the tests expect of the values: the
\* placeholders of the path and the humanized last segment, the methods as
\* rendered, the humanized handler name.
PathCases ==
    {[path |-> "/books/{book_id}/chapters/{chapter_id}",
      placeholders |-> <<"book_id", "chapter_id">>, last_part |-> "Chapters"],
     [path |-> "/{id}", placeholders |-> <<"id">>, last_part |-> ""],
     [path |-> "/api/v1/book_items", placeholders |-> <<>>, last_part |-> "Book Items"],
     [path |-> "/a/{book_id}/b/{book_id}/", placeholders |-> <<"book_id">>, last_part |-> "B"],
     [path |-> "", placeholders |-> <<>>, last_part |-> ""]}

BookIdParam(required, field_info) == Param("book_id", required, "<class 'int'>", field_info)
QueryParam == Param("q", FALSE, "typing.Optional[str]", FieldInfo(PyStr("Search query")))
HeaderParam == Param("q", TRUE, "<class 'str'>", FieldInfo(PyStr("Search header")))
UnnamedParam == Param("", TRUE, "<class 'str'>", None)
\* a descriptor that has a name and nothing else
LimitParam == [name |-> "limit"]
\* a descriptor whose field info has no description attribute, its type a
\* class whose string form is its bare name
SortParam == Param("sort", TRUE, "int", [title |-> "Sort"])
\* a descriptor whose field info has the description None
TagsParam == Param("tags", FALSE, "typing.Dict[str, typing.List[int]]", FieldInfo(None))

\* the type labels the tests expect for the types above
TypeLabel(type_) ==
    CASE type_ = "<class 'int'>" -> "int"
      [] type_ = "<class 'str'>" -> "str"
      [] type_ = "typing.Optional[str]" -> "Optional[str]"
      [] type_ = "typing.Dict[str, typing.List[int]]" -> "Dict[str, List[int]]"
      [] type_ = "int" -> "int"

MockDependant(params) == [params |-> params]

DependantCases ==
    {None, [py |-> "object"], MockDependant(<<>>),
     MockDependant(<<BookIdParam(TRUE, FieldInfo(PyStr("The ID of the book")))>>),
     MockDependant(<<BookIdParam(FALSE, FieldInfo(PyStr("")))>>),
     MockDependant(<<BookIdParam(TRUE, FieldInfo(None))>>),
     MockDependant(<<BookIdParam(FALSE, None)>>),
     MockDependant(<<QueryParam, BookIdParam(TRUE, FieldInfo(PyStr("The ID of the book")))>>),
     MockDependant(<<QueryParam, HeaderParam>>),
     MockDependant(<<UnnamedParam, QueryParam>>),
     MockDependant(<<LimitParam, UnnamedParam, SortParam>>),
     MockDependant(<<TagsParam>>)}

MethodsCases ==
    {[methods |-> None, rendered |-> "GET"],
     [methods |-> PyList(<<>>), rendered |-> "GET"],
     [methods |-> PyList(<<"POST">>), rendered |-> "POST"],
     [methods |-> PyList(<<"PUT", "GET">>), rendered |-> "PUT, GET"]}

\* a callable without a __name__
NamelessCallable == [py |-> "partial", generator |-> 0]

EndpointCases ==
    {[endpoint |-> None, handler |-> "", humanized |-> ""],
     [endpoint |-> NamelessCallable, handler |-> "", humanized |-> ""],
     [endpoint |-> Function("get_book_chapter", 0), handler |-> "get_book_chapter",
      humanized |-> "Get Book Chapter"],
     [endpoint |-> Function("serve_llms_txt", 0), handler |-> "serve_llms_txt",
      humanized |-> "Serve Llms Txt"]}

\* an object that has a name and a path and none of the optional attributes
BareCases ==
    [path : PathCases, dependant : {None},
     methods : {[methods |-> None, rendered |-> "GET"]},
     summary : {""}, endpoint : {[endpoint |-> None, handler |-> "", humanized |-> ""]},
     name : {"mock_route", "serve_llms_txt"},
     missing : {{"methods", "summary", "description", "endpoint", "dependant"}}]

MockCases ==
    [path : PathCases, dependant : DependantCases, methods : MethodsCases,
     summary : {"", "Get Chapter"}, endpoint : EndpointCases,
     name : {"mock_route", "serve_llms_txt"},
     missing : {{}, {"methods"}, {"dependant"}}]
    \cup BareCases

\* the object with the attributes attrs, those named in missing deleted
Attributes(attrs, missing) ==
    [name \in DOMAIN attrs \ missing |-> attrs[name]]

MockRoute(case) ==
    Attributes([cls |-> "APIRoute", name |-> case.name, path |-> case.path.path,
                methods |-> case.methods.methods, summary |-> case.summary,
                description |-> "", endpoint |-> case.endpoint.endpoint,
                dependant |-> case.dependant],
               case.missing)

\* EndpointLines over the host's routes, tabulated
HostEndpointLines == [route \in HostRoutes |-> EndpointLines(route)]

\* EndpointLines, looked up for a route of the host
EndpointLinesOf(route) ==
    IF route \in HostRoutes THEN HostEndpointLines[route] ELSE EndpointLines(route)

\* _generate_api_docs as it would be with the walk over self.app.routes written
\* inline and the documentation endpoint recognised by its path
GenerateApiDocsSkipByPath(gen, app_routes) ==
    IF gen.app = None THEN <<>>
    ELSE LET IsApi(route) == route.cls = "APIRoute" /\ route.path /= "/llms.txt"
             looped == SelectSeqIdx(app_routes, IsApi, 1)
             has_routes_content == \E i \in 1..Len(looped) : looped[i].path /= ""
         IN IF has_routes_content
            THEN <<Line("api_header", "## API Endpoints"), Blank>>
                 \o Flatten([i \in 1..Len(looped) |-> EndpointLinesOf(looped[i])])
            ELSE <<>>

\* _generate_api_docs as it would be without the has_routes_content test
GenerateApiDocsAlwaysHeader(gen, app_routes) ==
    IF gen.app = None THEN <<>>
    ELSE LET routes == GetAllRoutes(gen, app_routes)
             NotSelf(route) == route.name /= "serve_llms_txt"
             looped == SelectSeqIdx(routes, NotSelf, 1)
         IN IF Len(routes) = 0 THEN <<>>
            ELSE <<Line("api_header", "## API Endpoints"), Blank>>
                 \o Flatten([i \in 1..Len(looped) |-> EndpointLinesOf(looped[i])])

\* _generate_api_docs
GenerateApiDocs(gen, app_routes) ==
    IF gen.app = None THEN <<>>
    ELSE LET routes == GetAllRoutes(gen, app_routes)
             NotSelf(route) == route.name /= "serve_llms_txt"
             looped == SelectSeqIdx(routes, NotSelf, 1)
             has_routes_content == \E i \in 1..Len(looped) : looped[i].path /= ""
         IN IF Len(routes) = 0 THEN <<>>
            ELSE IF has_routes_content
            THEN <<Line("api_header", "## API Endpoints"), Blank>>
                 \o Flatten([i \in 1..Len(looped) |-> EndpointLinesOf(looped[i])])
            ELSE <<>>

NoteLines(notes) ==
    IF notes /= None /\ Len(notes.list) > 0
    THEN [i \in 1..Len(notes.list) |-> Line("note", "- " \o notes.list[i])] \o <<Blank>>
    ELSE <<>>

\* the section loop as it would be with the link's title and url swapped
SectionLinesSwapped(item) ==
    <<Line("section", "## " \o item[1]), Blank>>
    \o [i \in 1..Len(item[2]) |->
            Line("link", "- [" \o item[2][i].url \o "](" \o item[2][i].title \o ")")]
    \o <<Blank>>

\* one section of the loop over project_description.sections.items()
SectionLines(item) ==
    <<Line("section", "## " \o item[1]), Blank>>
    \o [i \in 1..Len(item[2]) |->
            Line("link", "- [" \o item[2][i].title \o "](" \o item[2][i].url \o ")")]
    \o <<Blank>>

\* generate as it would be with the route table copied when the documentation
\* endpoint was registered: the entries that precede that endpoint
GenerateFromSnapshot(gen, app_routes) ==
    LET pd == gen.project_description
        IsDoc(i) == app_routes[i].name = "serve_llms_txt" /\ app_routes[i].path = "/llms.txt"
        first == IF \E i \in 1..Len(app_routes) : IsDoc(i)
                 THEN CHOOSE i \in 1..Len(app_routes) :
                          IsDoc(i) /\ \A j \in 1..(i - 1) : ~IsDoc(j)
                 ELSE Len(app_routes) + 1
    IN <<Line("title", "# " \o pd.title), Blank, Line("summary", pd.summary), Blank>>
       \o NoteLines(pd.notes)
       \o (IF gen.app /= None
           THEN GenerateApiDocs(gen, SubSeq(app_routes, 1, first - 1)) ELSE <<>>)
       \o Flatten([i \in 1..Len(pd.sections) |-> SectionLines(pd.sections[i])])

\* generate as it would be with the endpoints block appended after the sections
GenerateApiLast(gen, app_routes) ==
    LET pd == gen.project_description
    IN <<Line("title", "# " \o pd.title), Blank, Line("summary", pd.summary), Blank>>
       \o NoteLines(pd.notes)
       \o Flatten([i \in 1..Len(pd.sections) |-> SectionLines(pd.sections[i])])
       \o (IF gen.app /= None THEN GenerateApiDocs(gen, app_routes) ELSE <<>>)

\* generate: the lines of content, in order
Generate(gen, app_routes) ==
    LET pd == gen.project_description
    IN <<Line("title", "# " \o pd.title), Blank, Line("summary", pd.summary), Blank>>
       \o NoteLines(pd.notes)
       \o (IF gen.app /= None THEN GenerateApiDocs(gen, app_routes) ELSE <<>>)
       \o Flatten([i \in 1..Len(pd.sections) |-> SectionLines(pd.sections[i])])

\* --------------------------------------------------------------- plugin.py
\* One pass of the try block over a raw link: the LinkItem appended to
\* section_items, or nothing when the block raises and the link is skipped.
ProcessLink(link) ==
    IF ~IsDict(link) THEN <<>>
    ELSE IF "title" \notin DOMAIN link.dict \/ "url" \notin DOMAIN link.dict THEN <<>>
    ELSE IF ~IsHttpUrl(link.dict.url) THEN <<>>
    ELSE <<LinkItem(link.dict.title, link.dict.url)>>

ProcessLinks(links) == Flatten([i \in 1..Len(links) |-> ProcessLink(links[i])])

\* processed_sections as it would be if a section left without a link were
\* not stored
ProcessSectionsDropEmpty(sections) ==
    LET items == IF sections = None THEN <<>> ELSE sections.dict
        all == [i \in 1..Len(items) |-> <<items[i][1], ProcessLinks(items[i][2].list)>>]
        NonEmpty(item) == Len(item[2]) > 0
    IN SelectSeqIdx(all, NonEmpty, 1)

\* A dict is the sequence of its <<key, value>> items, in insertion order.
\* processed_sections: every section name, with the links that validated.
ProcessSections(sections) ==
    LET items == IF sections = None THEN <<>> ELSE sections.dict
    IN [i \in 1..Len(items) |-> <<items[i][1], ProcessLinks(items[i][2].list)>>]

\* The exceptions that leave add_llms_txt: sections.items() on a non-mapping,
\* and the iteration of a section's value that is not iterable.
SetupRaises(sections) ==
    /\ sections /= None
    /\ \/ ~IsDict(sections)
       \/ \E i \in 1..Len(sections.dict) : ~IsList(sections.dict[i][2])

\* ProjectDescription(title=..., notes=...) rejects the arguments: notes that
\* are neither None nor a list (plugin.py l.52-54, models.py l.18)
ValidationRaises(call) == call.notes /= None /\ ~IsList(call.notes)

LlmsTag ==
    [name |-> LLMS_TXT_TAG,
     description |-> "Endpoints related to the llms.txt specification, "
                     \o "which provides information for Large Language Models "
                     \o "about the purpose and capabilities of this API."]

\* the existence test as it would be if it never found the tag
LlmsTagNeverFound(tags) == FALSE

\* any(tag.get("name") == LLMS_TXT_TAG for tag in app.openapi_tags)
LlmsTagExists(tags) ==
    \E i \in 1..Len(tags) : "name" \in DOMAIN tags[i] /\ tags[i].name = LLMS_TXT_TAG

\* lines 89-105 as they would be if an existing tag were given the plugin's
\* description
TagsAfterSetupOverwriting(tags) ==
    LET present == IF tags = None THEN <<>> ELSE tags.list
    IN IF LlmsTagExists(present)
       THEN PyList([i \in 1..Len(present) |->
                       IF "name" \in DOMAIN present[i] /\ present[i].name = LLMS_TXT_TAG
                       THEN LlmsTag ELSE present[i]])
       ELSE PyList(Append(present, LlmsTag))

\* app.openapi_tags after lines 89-105
TagsAfterSetup(tags) ==
    LET present == IF tags = None THEN <<>> ELSE tags.list
    IN IF LlmsTagExists(present) THEN PyList(present)
       ELSE PyList(Append(present, LlmsTag))

\* The route that router.get and app.include_router add for the closure
\* serve_llms_txt of the call that built generator number g.
LlmsRoute(g) ==
    [cls |-> "APIRoute", name |-> "serve_llms_txt", path |-> LLMS_TXT_ENDPOINT,
     methods |-> PyList(<<"GET">>), summary |-> "Get llms.txt contents",
     description |-> "Returns a plain text llms.txt file that adheres to the llms.txt specification.",
     endpoint |-> Function("serve_llms_txt", g), dependant |-> [params |-> <<>>]]

\* include_router as it would be if a path the table already routes were not
\* registered a second time
IncludeRouterOnce(table, route) ==
    IF \E i \in 1..Len(table) : table[i].path = route.path
    THEN table
    ELSE Append(table, route)

\* app.include_router(router): the router's one route joins the table at the end
IncludeRouter(table, route) == Append(table, route)

\* the generator as it would be with the application always handed over
NewGeneratorAlwaysBound(call) ==
    [project_description |->
         ProjectDescription(call.title, call.summary, call.notes,
                            ProcessSections(call.sections)),
     app |-> App]

NewGenerator(call) ==
    [project_description |->
         ProjectDescription(call.title, call.summary, call.notes,
                            ProcessSections(call.sections)),
     app |-> IF call.include_api_docs THEN App ELSE None]

\* ------------------------------------------------------------------ inputs
ValidLink == PyDict([title |-> "API Docs", url |-> "https://example.com/docs"])
ValidLink2 == PyDict([title |-> "Example 1", url |-> "http://example.com/ex1"])
NoUrlLink == PyDict([title |-> "Invalid Link - No URL"])
WrongKeysLink == PyDict([random_key |-> "Invalid Link - Wrong Keys"])
BadUrlLink == PyDict([title |-> "Invalid Link - Bad URL", url |-> "ftp://example.com/f"])

InvalidLinksSections ==
    PyDict(<< <<"Documentation", PyList(<<ValidLink, NoUrlLink, WrongKeysLink, None>>)>> >>)

\* Three sections; the second is named like the endpoints header and loses
\* every link, the third keeps two of its three links.
ThreeSections ==
    PyDict(<< <<"Documentation", PyList(<<ValidLink>>)>>,
              <<"API Endpoints", PyList(<<NoUrlLink, None>>)>>,
              <<"Examples", PyList(<<ValidLink2, BadUrlLink, ValidLink>>)>> >>)

NotAMapping == PyList(<<ValidLink>>)
NotIterableSection == PyDict(<< <<"Documentation", PyInt(5)>> >>)

Call(title, summary, notes, sections, include_api_docs) ==
    [title |-> title, summary |-> summary, notes |-> notes, sections |-> sections,
     include_api_docs |-> include_api_docs]

TwoNotes == PyList(<<"Note 1", "Note 2">>)

\* the argument lists of add_llms_txt the host may pass
Calls ==
    {Call("Test API", "A test API for testing", TwoNotes, InvalidLinksSections, TRUE),
     Call("Other API", "Another API", None, ThreeSections, FALSE),
     Call("Test API", "A test API for testing", None, NotAMapping, TRUE),
     Call("Test API", "A test API for testing", None, NotIterableSection, FALSE),
     Call("Test API", "A test API for testing", PyInt(5), ThreeSections, TRUE)}

\* every argument list of the single-registration scenario
NotesChoices == {None, PyList(<<>>), TwoNotes}

SectionsChoices ==
    {None, PyDict(<<>>), InvalidLinksSections, ThreeSections, NotAMapping, NotIterableSection}

AllCalls ==
    {Call("Test API", "A test API for testing", notes, sections, include_api_docs) :
        notes \in NotesChoices, sections \in SectionsChoices, include_api_docs \in BOOLEAN}

ExistingTag == [name |-> "Existing Tag", description |-> "Description for existing tag"]
CustomLlmsTag == [name |-> LLMS_TXT_TAG, description |-> "Custom description for LLMs.txt"]
UnnamedTag == [description |-> "A tag without a name"]

\* the values of openapi_tags a FastAPI host is constructed with
InitialTags ==
    {None, PyList(<<ExistingTag, UnnamedTag>>), PyList(<<ExistingTag, CustomLlmsTag>>)}

\* ------------------------------------------------------------------- state
VARIABLES routes, openapi_tags, generators, last, callers, threads

vars == <<routes, openapi_tags, generators, last, callers, threads>>

\* The threads of the host that may call add_llms_txt at the same time, and
\* where each is in the call: its position, the arguments, the local
\* llms_tag_exists; beside them, what was true when it began and when it
\* evaluated the test.
Threads == {"A", "B"}

Other(t) == CHOOSE o \in Threads : o /= t

Idle == [pc |-> "idle"]

IdleThreads == [t \in Threads |-> Idle]

IsLlmsRoute(route) == route.endpoint /= None /\ route.endpoint.generator > 0

UserRouteCount ==
    Cardinality({i \in 1..Len(routes) : ~IsLlmsRoute(routes[i])})

Init ==
    /\ routes = <<>>
    /\ openapi_tags \in InitialTags
    /\ generators = <<>>
    /\ last = [op |-> "init"]
    /\ callers = <<>>
    /\ threads = IdleThreads

\* the host registers a route of its own, once: app.routes gains it at the end
AddRoute(route) ==
    /\ UserRouteCount < MaxUserRoutes
    /\ \A i \in 1..Len(routes) : routes[i] /= route
    /\ routes' = Append(routes, route)
    /\ last' = [op |-> "add_route"]
    /\ UNCHANGED <<openapi_tags, generators, callers, threads>>

\* the host drops entry i of its route table, a route of its own
RemoveRoute(i) ==
    /\ i \in 1..Len(routes)
    /\ ~IsLlmsRoute(routes[i])
    /\ routes' = [j \in 1..(Len(routes) - 1) |-> IF j < i THEN routes[j] ELSE routes[j + 1]]
    /\ last' = [op |-> "remove_route"]
    /\ UNCHANGED <<openapi_tags, generators, callers, threads>>

\* add_llms_txt(app, **call)
\* add_llms_txt as it would be if the tag list were updated before the
\* arguments are processed
AddLlmsTxtTagsFirst(call) ==
    /\ Len(generators) < MaxSetups
    /\ IF SetupRaises(call.sections) \/ ValidationRaises(call)
       THEN /\ openapi_tags' = TagsAfterSetup(openapi_tags)
            /\ UNCHANGED <<routes, generators, callers, threads>>
            /\ last' = [op |-> "add_llms_txt", raised |-> TRUE, call |-> call,
                        pre_tags |-> openapi_tags, pre_routes |-> routes]
       ELSE /\ generators' = Append(generators, NewGenerator(call))
            /\ openapi_tags' = TagsAfterSetup(openapi_tags)
            /\ routes' = IncludeRouter(routes, LlmsRoute(Len(generators) + 1))
            /\ last' = [op |-> "add_llms_txt", raised |-> FALSE, call |-> call,
                        pre_tags |-> openapi_tags, pre_routes |-> routes]
            /\ callers' = Append(callers, [call |-> call, sections |-> call.sections])
            /\ UNCHANGED threads

\* add_llms_txt: the arguments are processed and validated (l.33-54, where
\* the call may raise) before the host is touched (l.89-107)
AddLlmsTxt(call) ==
    /\ Len(generators) < MaxSetups
    /\ IF SetupRaises(call.sections) \/ ValidationRaises(call)
       THEN /\ UNCHANGED <<routes, openapi_tags, generators, callers, threads>>
            /\ last' = [op |-> "add_llms_txt", raised |-> TRUE, call |-> call,
                        pre_tags |-> openapi_tags, pre_routes |-> routes]
       ELSE /\ generators' = Append(generators, NewGenerator(call))
            /\ openapi_tags' = TagsAfterSetup(openapi_tags)
            /\ routes' = IncludeRouter(routes, LlmsRoute(Len(generators) + 1))
            /\ last' = [op |-> "add_llms_txt", raised |-> FALSE, call |-> call,
                        pre_tags |-> openapi_tags, pre_routes |-> routes]
            /\ callers' = Append(callers, [call |-> call, sections |-> call.sections])
            /\ UNCHANGED threads

\* The caller of call g changes the mapping it passed, after the call: the
\* links of the first section get another title and a section is added.
\* The generator holds processed_sections, a dict of its own with LinkItem
\* objects of its own, so no state of the plugin changes.
Mutated(sections) ==
    LET items == sections.dict
        Retitled(link) ==
            IF IsDict(link) /\ "title" \in DOMAIN link.dict
            THEN PyDict([link.dict EXCEPT !.title = "Changed"])
            ELSE link
        first == IF Len(items) = 0 THEN <<>>
                 ELSE << <<items[1][1],
                           PyList([k \in 1..Len(items[1][2].list) |->
                                      Retitled(items[1][2].list[k])])>> >>
    IN PyDict(first \o SubSeq(items, 2, Len(items))
              \o << <<"Late", PyList(<<ValidLink2>>)>> >>)

MutateSections(g) ==
    /\ g \in 1..Len(callers)
    /\ IsDict(callers[g].sections)
    /\ callers[g].sections = callers[g].call.sections
    /\ callers' = [callers EXCEPT ![g].sections = Mutated(@)]
    /\ last' = [op |-> "mutate_sections"]
    /\ UNCHANGED <<routes, openapi_tags, generators, threads>>

\* the generator as it would be if it kept the caller's mapping and validated
\* the links when it renders
GeneratorSharingSections(g) ==
    [generators[g] EXCEPT
        !.project_description.sections = ProcessSections(callers[g].sections)]

\* the generator the closure serve_llms_txt of call g captured
Generator(g) == generators[g]

\* The framework hands a GET of /llms.txt to the first route of the table
\* that matches the path and the method.
Matches(route) ==
    /\ route.cls = "APIRoute"
    /\ route.path = LLMS_TXT_ENDPOINT
    /\ route.methods /= None
    /\ \E k \in 1..Len(route.methods.list) : route.methods.list[k] = "GET"

Serving ==
    IF \E i \in 1..Len(routes) : Matches(routes[i])
    THEN routes[CHOOSE i \in 1..Len(routes) :
                    Matches(routes[i]) /\ \A j \in 1..(i - 1) : ~Matches(routes[j])]
                .endpoint.generator
    ELSE 0

\* serve_llms_txt as it would be if the route listing dropped the reserved
\* name from app.routes itself instead of from a new list
ServeLlmsTxtPruning ==
    /\ Serving > 0
    /\ last' = [op |-> "get", status |-> 200,
                content_type |-> "text/plain; charset=utf-8",
                generator |-> Serving,
                body |-> Generate(Generator(Serving), routes),
                after |-> last.op]
    /\ routes' = (IF generators[Serving].app = None THEN routes
                  ELSE LET Kept(route) == route.name /= SERVE_LLMS_TXT
                       IN SelectSeqIdx(routes, Kept, 1))
    /\ UNCHANGED <<openapi_tags, generators, callers, threads>>

\* serve_llms_txt: the request renders the document from the live route table
ServeLlmsTxt ==
    /\ Serving > 0
    /\ last' = [op |-> "get", status |-> 200,
                content_type |-> "text/plain; charset=utf-8",
                generator |-> Serving,
                body |-> Generate(Generator(Serving), routes),
                after |-> last.op]
    /\ UNCHANGED <<routes, openapi_tags, generators, callers, threads>>

Next ==
    \/ \E route \in HostRoutes : AddRoute(route)
    \/ \E i \in 1..Len(routes) : RemoveRoute(i)
    \/ \E call \in Calls : AddLlmsTxt(call)
    \/ ServeLlmsTxt

Spec == Init /\ [][Next]_vars

\* The scenario of the plugin's tests: the host registers its routes, calls
\* add_llms_txt once with any argument list, and requests the document.
RegisterFirst(route) == generators = <<>> /\ AddRoute(route)

AddLlmsTxtOnce(call) == generators = <<>> /\ AddLlmsTxt(call)

NextOneSetup ==
    \/ \E route \in HostRoutes : RegisterFirst(route)
    \/ \E call \in AllCalls : AddLlmsTxtOnce(call)
    \/ ServeLlmsTxt

SpecOneSetup == Init /\ [][NextOneSetup]_vars

\* The host and the callers run on after registration: routes are added,
\* add_llms_txt is called again, a caller changes the sections it passed,
\* and the document is requested.
NextCallerMutates ==
    \/ \E route \in {UserRoute, ItemsRoute} : AddRoute(route)
    \/ \E call \in Calls : AddLlmsTxt(call)
    \/ \E g \in 1..Len(callers) : MutateSections(g)
    \/ ServeLlmsTxt

SpecCallerMutates == Init /\ [][NextCallerMutates]_vars

\* Two threads of the host call add_llms_txt, each with arguments that pass
\* validation.  A call is a sequence of steps, and a thread may be suspended
\* between any two of them: nothing in add_llms_txt holds a lock.
\* l.33-87: the arguments are processed, the generator and the router built
Begin(t, call) ==
    /\ threads[t].pc = "idle"
    /\ ~SetupRaises(call.sections)
    /\ ~ValidationRaises(call)
    /\ threads' = [threads EXCEPT ![t] =
                       [pc |-> "built", call |-> call, pre_tags |-> openapi_tags,
                        after_other |-> threads[Other(t)].pc = "done"]]
    /\ last' = [op |-> "add_llms_txt", thread |-> t, line |-> "33-87"]
    /\ UNCHANGED <<routes, openapi_tags, generators, callers>>

\* l.90: if app.openapi_tags is None
TestNone(t) ==
    /\ threads[t].pc = "built"
    /\ threads' = [threads EXCEPT ![t].pc =
                       IF openapi_tags = None THEN "assign" ELSE "check"]
    /\ last' = [op |-> "add_llms_txt", thread |-> t, line |-> "90"]
    /\ UNCHANGED <<routes, openapi_tags, generators, callers>>

\* l.91: app.openapi_tags = []
AssignEmpty(t) ==
    /\ threads[t].pc = "assign"
    /\ openapi_tags' = PyList(<<>>)
    /\ threads' = [threads EXCEPT ![t].pc = "check"]
    /\ last' = [op |-> "add_llms_txt", thread |-> t, line |-> "91"]
    /\ UNCHANGED <<routes, generators, callers>>

Appended(t) == "appended" \in DOMAIN threads[t] /\ threads[t].appended

\* l.94: llms_tag_exists = any(...)
CheckTag(t) ==
    /\ threads[t].pc = "check"
    /\ threads' = [threads EXCEPT ![t] =
                       [pc |-> "append", call |-> @.call, pre_tags |-> @.pre_tags,
                        after_other |-> @.after_other,
                        llms_tag_exists |-> LlmsTagExists(openapi_tags.list),
                        before_append |-> ~Appended(Other(t))]]
    /\ last' = [op |-> "add_llms_txt", thread |-> t, line |-> "94"]
    /\ UNCHANGED <<routes, openapi_tags, generators, callers>>

\* l.95-105 as they would be if the test were evaluated again, with the
\* append, in one step
AppendTagChecking(t) ==
    /\ threads[t].pc = "append"
    /\ LET append == ~LlmsTagExists(openapi_tags.list)
       IN /\ openapi_tags' = (IF append
                              THEN PyList(Append(openapi_tags.list, LlmsTag))
                              ELSE openapi_tags)
          /\ threads' = [threads EXCEPT ![t] =
                             [pc |-> "include", call |-> @.call, pre_tags |-> @.pre_tags,
                              after_other |-> @.after_other,
                              llms_tag_exists |-> @.llms_tag_exists,
                              before_append |-> @.before_append,
                              appended |-> append]]
    /\ last' = [op |-> "add_llms_txt", thread |-> t, line |-> "95-105"]
    /\ UNCHANGED <<routes, generators, callers>>

\* l.95-105: if not llms_tag_exists: app.openapi_tags.append({...})
AppendTag(t) ==
    /\ threads[t].pc = "append"
    /\ LET append == ~threads[t].llms_tag_exists
       IN /\ openapi_tags' = (IF append
                              THEN PyList(Append(openapi_tags.list, LlmsTag))
                              ELSE openapi_tags)
          /\ threads' = [threads EXCEPT ![t] =
                             [pc |-> "include", call |-> @.call, pre_tags |-> @.pre_tags,
                              after_other |-> @.after_other,
                              llms_tag_exists |-> @.llms_tag_exists,
                              before_append |-> @.before_append,
                              appended |-> append]]
    /\ last' = [op |-> "add_llms_txt", thread |-> t, line |-> "95-105"]
    /\ UNCHANGED <<routes, generators, callers>>

\* l.107: app.include_router(router)
Include(t) ==
    /\ threads[t].pc = "include"
    /\ generators' = Append(generators, NewGenerator(threads[t].call))
    /\ routes' = IncludeRouter(routes, LlmsRoute(Len(generators) + 1))
    /\ callers' = Append(callers, [call |-> threads[t].call,
                                   sections |-> threads[t].call.sections])
    /\ threads' = [threads EXCEPT ![t].pc = "done"]
    /\ last' = [op |-> "add_llms_txt", thread |-> t, line |-> "107"]
    /\ UNCHANGED openapi_tags

NextTwoCalls ==
    \/ \E t \in Threads, call \in Calls : Begin(t, call)
    \/ \E t \in Threads : TestNone(t)
    \/ \E t \in Threads : AssignEmpty(t)
    \/ \E t \in Threads : CheckTag(t)
    \/ \E t \in Threads : AppendTag(t)
    \/ \E t \in Threads : Include(t)

SpecTwoCalls == Init /\ [][NextTwoCalls]_vars

\* The scenario of the generator's tests: a generator bound to an application
\* whose table is one route, and the generator's methods called on it.
InitMockRoute ==
    \E case \in MockCases :
        /\ routes = <<MockRoute(case)>>
        /\ openapi_tags = None
        /\ generators = <<[project_description |->
                               ProjectDescription("Test API", "A test API for testing",
                                                  None, <<>>),
                           app |-> App]>>
        /\ last = [op |-> "route", case |-> case]
        /\ callers = <<>>
        /\ threads = IdleThreads

GetEndpointParamsCall ==
    /\ last' = [op |-> "_get_endpoint_params", case |-> last.case,
                result |-> GetEndpointParams(routes[1])]
    /\ UNCHANGED <<routes, openapi_tags, generators, callers, threads>>

GetEndpointNameCall ==
    /\ last' = [op |-> "_get_endpoint_name", case |-> last.case,
                result |-> GetEndpointName(routes[1])]
    /\ UNCHANGED <<routes, openapi_tags, generators, callers, threads>>

GenerateApiDocsCall ==
    /\ last' = [op |-> "_generate_api_docs", case |-> last.case,
                result |-> GenerateApiDocs(generators[1], routes)]
    /\ UNCHANGED <<routes, openapi_tags, generators, callers, threads>>

GenerateCall ==
    /\ last' = [op |-> "generate", case |-> last.case,
                result |-> Generate(generators[1], routes)]
    /\ UNCHANGED <<routes, openapi_tags, generators, callers, threads>>

NextMockRoute ==
    \/ GetEndpointParamsCall
    \/ GetEndpointNameCall
    \/ GenerateApiDocsCall
    \/ GenerateCall

SpecMockRoute == InitMockRoute /\ [][NextMockRoute]_vars

\* ------------------------------------------------------------------ claims
\* what generator number g renders from the route table as it is now
Rendered(g) == Generate(Generator(g), routes)

\* the texts of the lines whose part is in parts, in order
RECURSIVE TextsOf(_, _)
TextsOf(lines, parts) ==
    IF Len(lines) = 0 THEN <<>>
    ELSE (IF Head(lines).part \in parts THEN <<Head(lines).text>> ELSE <<>>)
         \o TextsOf(Tail(lines), parts)

HasPart(lines, part) == \E i \in 1..Len(lines) : lines[i].part = part

\* the lines the endpoints block is made of
ApiParts == {"api_header", "endpoint", "ep_summary", "ep_description", "params_header", "param"}

\* lines holds an endpoint heading for the route: a "### <METHODS> <path>" line
Listed(route, lines) ==
    \E i \in 1..Len(lines) :
        lines[i].part = "endpoint" /\ EndsWith(lines[i].text, " " \o route.path)

InTable(route) == \E i \in 1..Len(routes) : routes[i] = route

\* a route the endpoints block lists: an API route, not reserved, with a path
Listable(route) ==
    route.cls = "APIRoute" /\ route.name /= SERVE_LLMS_TXT /\ route.path /= ""

\* C1: whatever routes were registered and however often add_llms_txt was
\* called, no generator renders an endpoint heading for a route of the table
\* whose name is serve_llms_txt: neither the documentation endpoints nor a
\* handler of the host's own that carries the reserved name.
C1_ReservedNameNeverListed ==
    \A g \in 1..Len(generators) :
        LET lines == Rendered(g)
        IN \A i \in 1..Len(routes) :
               routes[i].name = SERVE_LLMS_TXT => ~Listed(routes[i], lines)

\* an endpoints block was rendered while the table held a documentation
\* endpoint and a host route with the reserved name
C1_Witness ==
    /\ last.op = "get"
    /\ HasPart(last.body, "api_header")
    /\ InTable(ReservedNameRoute)
    /\ InTable(LlmsRoute(last.generator))

\* C2: a GET of /llms.txt answers 200, text/plain, with the document rendered
\* from the route table as it is at the request: with API docs enabled, a
\* listable route has its heading in the body exactly when it is in the table
\* now, whether it was added or removed after add_llms_txt returned.
C2_ServesLiveTable ==
    last.op = "get" =>
        /\ last.status = 200
        /\ last.content_type = "text/plain; charset=utf-8"
        /\ last.body = Rendered(last.generator)
        /\ generators[last.generator].app /= None =>
               \A route \in HostRoutes :
                   Listable(route) => (Listed(route, last.body) <=> InTable(route))

\* right after the host removed a route, a request lists a route that was
\* registered after the endpoint serving it and not the removed one
C2_Witness ==
    /\ last.op = "get"
    /\ last.after = "remove_route"
    /\ ~InTable(ItemsRoute)
    /\ generators[last.generator].app /= None
    /\ \E i, j \in 1..Len(routes) :
           /\ i < j
           /\ routes[i] = LlmsRoute(last.generator)
           /\ routes[j] = UserRoute
    /\ Listed(UserRoute, last.body)

\* C3: a generator bound to the application renders the header line of the
\* endpoints block exactly when the table holds an API route that is not
\* reserved and has a path; schema routes, routes with an empty path and the
\* documentation endpoints do not count.  (The header is the line that
\* _generate_api_docs emits, not a section the caller named the same.)
C3_HeaderIffListableRoute ==
    \A g \in 1..Len(generators) :
        generators[g].app /= None =>
            (HasPart(Rendered(g), "api_header")
                 <=> \E i \in 1..Len(routes) : Listable(routes[i]))

\* every route of a non-empty table is filtered out and no header is rendered
C3_Witness ==
    /\ last.op = "get"
    /\ generators[last.generator].app /= None
    /\ InTable(EmptyPathRoute)
    /\ InTable(OpenApiRoute)
    /\ ~HasPart(last.body, "api_header")

TagList(tags) == IF tags = None THEN <<>> ELSE tags.list

Named(tag) == "name" \in DOMAIN tag /\ tag.name = LLMS_TXT_TAG

LlmsTagCount(tags) ==
    Cardinality({i \in 1..Len(TagList(tags)) : Named(TagList(tags)[i])})

\* C9: a call of add_llms_txt on a host whose tag list already holds an entry
\* named LLMs.txt leaves the tag list as it was: same entries, same
\* descriptions, same length.
C9_ExistingTagUntouched ==
    (last.op = "add_llms_txt" /\ LlmsTagCount(last.pre_tags) > 0)
        => openapi_tags = last.pre_tags

\* a call returned on a host that had given the tag a description of its own
C9_Witness ==
    /\ last.op = "add_llms_txt"
    /\ ~last.raised
    /\ \E i \in 1..Len(TagList(last.pre_tags)) : TagList(last.pre_tags)[i] = CustomLlmsTag
    /\ \E i \in 1..Len(TagList(openapi_tags)) : TagList(openapi_tags)[i] = CustomLlmsTag

\* C10: a call that returns on a host whose tag list is None or holds no entry
\* named LLMs.txt appends one entry with that name at the end and keeps the
\* entries that were there, in order; and once a call has returned, the list
\* holds exactly one entry named LLMs.txt however many calls follow.
C10_OneTagAppended ==
    /\ (last.op = "add_llms_txt" /\ ~last.raised /\ LlmsTagCount(last.pre_tags) = 0)
           => /\ openapi_tags /= None
              /\ Len(openapi_tags.list) = Len(TagList(last.pre_tags)) + 1
              /\ SubSeq(openapi_tags.list, 1, Len(TagList(last.pre_tags)))
                     = TagList(last.pre_tags)
              /\ Named(openapi_tags.list[Len(openapi_tags.list)])
    /\ Len(generators) > 0 => LlmsTagCount(openapi_tags) = 1

\* the second call returned on a host that started with two other tags
C10_Witness ==
    /\ last.op = "add_llms_txt"
    /\ ~last.raised
    /\ Len(generators) = 2
    /\ openapi_tags = PyList(<<ExistingTag, UnnamedTag, LlmsTag>>)

\* what the claims say a section renders as: its heading, then its links
ExpectedSection(name, links) ==
    <<"## " \o name>>
    \o [i \in 1..Len(links) |-> "- [" \o links[i].title \o "](" \o links[i].url \o ")"]

ExpectedSections(sections) ==
    Flatten([i \in 1..Len(sections) |-> ExpectedSection(sections[i][1], sections[i][2])])

\* C5: with no route table bound, the document holds exactly one title line
\* "# <title>" (the first line), exactly one summary line (the third), one
\* "## <name>" heading per entry of the description's sections in insertion
\* order, each followed by one "- [<title>](<url>)" line per link in the
\* given order, and no line of an endpoints block.
C5_UnboundDocument ==
    \A g \in 1..Len(generators) :
        generators[g].app = None =>
            LET pd == generators[g].project_description
                lines == Rendered(g)
            IN /\ TextsOf(lines, {"title"}) = <<"# " \o pd.title>>
               /\ lines[1].text = "# " \o pd.title
               /\ TextsOf(lines, {"summary"}) = <<pd.summary>>
               /\ lines[3].text = pd.summary
               /\ TextsOf(lines, {"section", "link"}) = ExpectedSections(pd.sections)
               /\ TextsOf(lines, ApiParts) = <<>>
               /\ \A k \in 1..Len(lines) :
                      lines[k].part \in {"title", "summary", "note", "section", "link", "blank"}

\* an unbound generator with three sections served a host that has routes
C5_Witness ==
    /\ last.op = "get"
    /\ generators[last.generator].app = None
    /\ Len(generators[last.generator].project_description.sections) = 3
    /\ InTable(UserRoute)

\* the layer a line belongs to
Layer(part) ==
    CASE part = "title" -> 1
      [] part = "summary" -> 2
      [] part = "note" -> 3
      [] part \in ApiParts -> 4
      [] part \in {"section", "link"} -> 5
      [] OTHER -> 0

\* C7: the document starts with the title line, a blank line, the summary
\* line and a blank line; then come the note lines "- <note>" in the given
\* order and one blank line, or nothing at all when notes is None or empty;
\* and no line of a later layer precedes a line of an earlier one: notes,
\* then the endpoints block, then the sections.
C7_LayerOrder ==
    \A g \in 1..Len(generators) :
        LET pd == generators[g].project_description
            lines == Rendered(g)
            notes == IF pd.notes = None THEN <<>> ELSE pd.notes.list
        IN /\ Len(lines) >= 4
           /\ lines[1].part = "title" /\ lines[2] = Blank
           /\ lines[3].part = "summary" /\ lines[4] = Blank
           /\ TextsOf(lines, {"note"}) = [k \in 1..Len(notes) |-> "- " \o notes[k]]
           /\ \A k \in 1..Len(notes) : lines[4 + k].part = "note"
           /\ Len(notes) > 0 => lines[4 + Len(notes) + 1] = Blank
           /\ (Len(notes) = 0 /\ Len(lines) > 4) => lines[5] /= Blank
           /\ \A i, j \in 1..Len(lines) :
                  (i < j /\ lines[i] /= Blank /\ lines[j] /= Blank)
                      => Layer(lines[i].part) <= Layer(lines[j].part)

\* a document with notes, an endpoints block and a section was served
C7_Witness ==
    /\ last.op = "get"
    /\ HasPart(last.body, "note")
    /\ HasPart(last.body, "endpoint")
    /\ HasPart(last.body, "section")

\* a raw link the claims call well-formed: a mapping with a title and with a
\* url that is an http or https URL
WellFormed(link) ==
    /\ IsDict(link)
    /\ {"title", "url"} \subseteq DOMAIN link.dict
    /\ IsHttpUrl(link.dict.url)

\* the raw sections are a mapping (or absent) whose values are lists
MappingOfLists(sections) ==
    \/ sections = None
    \/ IsDict(sections) /\ \A i \in 1..Len(sections.dict) : IsList(sections.dict[i][2])

RawItems(sections) == IF sections = None THEN <<>> ELSE sections.dict

\* what the claims say the raw sections render as
ExpectedRaw(items) ==
    Flatten([i \in 1..Len(items) |->
        LET Good(link) == WellFormed(link)
            good == SelectSeqIdx(items[i][2].list, Good, 1)
        IN ExpectedSection(items[i][1], [k \in 1..Len(good) |-> good[k].dict])])

\* C8: add_llms_txt does not raise when the raw sections are a mapping of
\* lists, whatever their links are; the document then has a heading for every
\* raw section name, in order, also for a section that lost all its links, and
\* under it the well-formed links and only those, in their original order.
C8_MalformedLinksSkipped ==
    (last.op = "add_llms_txt" /\ MappingOfLists(last.call.sections)) =>
        /\ ~last.raised
        /\ TextsOf(Rendered(Len(generators)), {"section", "link"})
               = ExpectedRaw(RawItems(last.call.sections))

\* a call returned whose sections held a list of malformed links only and a
\* list with a bad URL between two good links
C8_Witness ==
    /\ last.op = "add_llms_txt"
    /\ ~last.raised
    /\ last.call.sections = ThreeSections

\* the entries of the table that are documentation endpoints: GET /llms.txt
\* under the reserved name
IsDocEndpoint(route) ==
    /\ route.cls = "APIRoute"
    /\ route.name = "serve_llms_txt"
    /\ route.path = "/llms.txt"
    /\ route.methods = PyList(<<"GET">>)

\* C11: a call of add_llms_txt that returns adds one route at the end of the
\* table (GET /llms.txt, named serve_llms_txt) and keeps the entries that were
\* there, unchanged and in order; calls are not idempotent: after k calls that
\* returned, the table holds k such routes.
C11_OneRoutePerCall ==
    /\ (last.op = "add_llms_txt" /\ ~last.raised) =>
           /\ Len(routes) = Len(last.pre_routes) + 1
           /\ SubSeq(routes, 1, Len(last.pre_routes)) = last.pre_routes
           /\ IsDocEndpoint(routes[Len(routes)])
    /\ Cardinality({i \in 1..Len(routes) : IsDocEndpoint(routes[i])}) = Len(generators)

\* the second call returned on a host whose table held a route of its own and
\* the first documentation endpoint
C11_Witness ==
    /\ last.op = "add_llms_txt"
    /\ ~last.raised
    /\ Len(generators) = 2
    /\ \E i, j \in 1..Len(last.pre_routes) :
           last.pre_routes[i] = UserRoute /\ IsDocEndpoint(last.pre_routes[j])

\* the parameter descriptors the framework supplies for the route of a case
Metadata(case) ==
    IF "dependant" \in case.missing \/ "params" \notin DOMAIN case.dependant
    THEN <<>>
    ELSE case.dependant.params

InSeq(x, seq) == \E i \in 1..Len(seq) : seq[i] = x

\* the descriptor comes with a description
Supplied(param) ==
    /\ param.field_info /= None
    /\ param.field_info.description /= None
    /\ param.field_info.description /= PyStr("")

\* C12: for a parameter named both by a {name} segment of the path and by a
\* descriptor of the framework, _get_endpoint_params returns an entry with the
\* descriptor's type label and required flag, described by the descriptor's
\* description when it has one and by "Path parameter: <name>" otherwise; and
\* no other entry has that name.
C12_MetadataTakesPrecedence ==
    last.op = "_get_endpoint_params" =>
        \A k \in 1..Len(Metadata(last.case)) :
            LET param == Metadata(last.case)[k]
                merged == [name |-> param.name,
                           required |-> param.required,
                           type |-> TypeLabel(param.type_),
                           description |->
                               IF Supplied(param) THEN param.field_info.description
                               ELSE PyStr("Path parameter: " \o param.name)]
            IN InSeq(param.name, last.case.path.placeholders) =>
                   /\ InSeq(merged, last.result)
                   /\ \A j \in 1..Len(last.result) :
                          last.result[j].name = param.name => last.result[j] = merged

\* the parameters of /books/{book_id}/chapters/{chapter_id} were extracted
\* where the framework marks book_id optional and describes it with ""
C12_Witness ==
    /\ last.op = "_get_endpoint_params"
    /\ last.case.path.placeholders = <<"book_id", "chapter_id">>
    /\ Metadata(last.case) = <<BookIdParam(FALSE, FieldInfo(PyStr("")))>>
    /\ Len(last.result) = 2
    /\ last.result[1].required = FALSE

\* C13: for a route without parameter descriptors (no dependant, a dependant
\* that is None or has no params, or an empty params list)
\* _get_endpoint_params returns one entry per distinct placeholder of the
\* path, in path order, each required, of type str and described as
\* "Path parameter: <name>"; no placeholder, no entry.
C13_PathParametersSynthesized ==
    (last.op = "_get_endpoint_params" /\ Metadata(last.case) = <<>>) =>
        LET names == last.case.path.placeholders
        IN last.result =
               [i \in 1..Len(names) |->
                   [name |-> names[i], required |-> TRUE, type |-> "str",
                    description |-> PyStr("Path parameter: " \o names[i])]]

\* a path that names book_id twice gave one entry, on a route whose
\* dependant has no params attribute
C13_Witness ==
    /\ last.op = "_get_endpoint_params"
    /\ last.case.path.path = "/a/{book_id}/b/{book_id}/"
    /\ last.case.dependant = [py |-> "object"]
    /\ last.case.missing = {}
    /\ Len(last.result) = 1

\* C14: the sequence _get_endpoint_params returns holds no two entries with
\* the same name, whatever the path and the descriptors of the route are.
C14_NoDuplicateNames ==
    last.op = "_get_endpoint_params" =>
        \A i, j \in 1..Len(last.result) :
            last.result[i].name = last.result[j].name => i = j

\* the route of a case passes the name test and the path test of the loop
RenderedCase(case) == case.name /= "serve_llms_txt" /\ case.path.path /= ""

\* C15: the block of a rendered route has one heading, "### <METHODS> <path>",
\* METHODS being the declared methods joined by ", " in their order, or GET
\* when the route has no methods attribute or its methods are None or empty.
C15_HeadingLine ==
    (last.op = "_generate_api_docs" /\ RenderedCase(last.case)) =>
        LET declared == IF "methods" \in last.case.missing THEN "GET"
                        ELSE last.case.methods.rendered
        IN TextsOf(last.result, {"endpoint"})
               = <<"### " \o declared \o " " \o last.case.path.path>>

\* a route without a methods attribute was rendered
C15_Witness ==
    /\ last.op = "_generate_api_docs"
    /\ "methods" \in last.case.missing
    /\ last.case.methods.rendered = "PUT, GET"
    /\ Len(last.result) > 2
    /\ last.result[3] = Line("endpoint", "### GET /{id}")

\* the summary lines of a block: none for an empty summary
SummaryLines(summary) == IF summary = "" THEN <<>> ELSE <<summary>>

\* C16 as stated: the summary of a rendered route is its declared summary when
\* that is not empty, otherwise the humanized handler identifier, otherwise
\* (no handler identifier) the humanized last segment of the path that is
\* neither empty nor a placeholder, otherwise empty, and then no summary line
\* is emitted.
C16_SummaryAsStated ==
    (last.op = "_generate_api_docs" /\ RenderedCase(last.case)) =>
        TextsOf(last.result, {"ep_summary"}) =
            SummaryLines(IF last.case.summary /= "" THEN last.case.summary
                         ELSE IF last.case.endpoint.handler /= ""
                              THEN last.case.endpoint.humanized
                         ELSE last.case.path.last_part)

\* C16, amended: as stated, except that a handler identifier that is the
\* reserved name serve_llms_txt gives the empty summary, and no summary line.
C16_EffectiveSummary ==
    (last.op = "_generate_api_docs" /\ RenderedCase(last.case)) =>
        TextsOf(last.result, {"ep_summary"}) =
            SummaryLines(IF last.case.summary /= "" THEN last.case.summary
                         ELSE IF last.case.endpoint.handler = "serve_llms_txt" THEN ""
                         ELSE IF last.case.endpoint.handler /= ""
                              THEN last.case.endpoint.humanized
                         ELSE last.case.path.last_part)

\* /{id} was rendered without summary and without handler identifier: the
\* heading is followed by no summary line
C16_Witness ==
    /\ last.op = "_generate_api_docs"
    /\ last.case.path.path = "/{id}"
    /\ last.case.summary = ""
    /\ last.case.endpoint.endpoint = NamelessCallable
    /\ HasPart(last.result, "endpoint")
    /\ ~HasPart(last.result, "ep_summary")

\* C17 as stated: _get_endpoint_name returns "" for every route that carries
\* the reserved name serve_llms_txt, as its internal name or as its handler
\* identifier, whatever its path.
C17_EmptyForReservedAsStated ==
    (/\ last.op = "_get_endpoint_name"
     /\ \/ last.case.name = "serve_llms_txt"
        \/ last.case.endpoint.handler = "serve_llms_txt")
        => last.result = ""

\* C17, amended: _get_endpoint_name returns "" for every route whose handler
\* identifier is serve_llms_txt, whatever its path and its internal name.
C17_EmptyForReservedHandler ==
    (last.op = "_get_endpoint_name" /\ last.case.endpoint.handler = "serve_llms_txt")
        => last.result = ""

\* the name was derived for a route under another internal name whose handler
\* is serve_llms_txt and whose path ends in a segment that could be humanized
C17_Witness ==
    /\ last.op = "_get_endpoint_name"
    /\ last.case.endpoint.handler = "serve_llms_txt"
    /\ last.case.name = "mock_route"
    /\ last.case.path.last_part = "Book Items"
    /\ last.result = ""

\* the headings the host's routes are listed under
HeadingOf(route) ==
    CASE route = UserRoute -> "### GET /users/{user_id}"
      [] route = ItemsRoute -> "### GET, POST /api/v1/items"
      [] OTHER -> "### " \o route.path

\* C20: the headings of the endpoints block are those of the listable routes
\* of the table, one each, in the order of the table.
C20_TableOrder ==
    \A g \in 1..Len(generators) :
        generators[g].app /= None =>
            LET listed == SelectSeqIdx(routes, Listable, 1)
            IN TextsOf(Rendered(g), {"endpoint"})
                   = [i \in 1..Len(listed) |-> HeadingOf(listed[i])]

\* the table holds /api/v1/items, then a documentation endpoint, then
\* /users/{user_id}, and the document lists the two in that order
C20_Witness ==
    /\ last.op = "get"
    /\ generators[last.generator].app /= None
    /\ \E i, j, k \in 1..Len(routes) :
           /\ i < j /\ j < k
           /\ routes[i] = ItemsRoute
           /\ IsDocEndpoint(routes[j])
           /\ routes[k] = UserRoute
    /\ TextsOf(last.body, {"endpoint"})
           = <<"### GET, POST /api/v1/items", "### GET /users/{user_id}">>

\* C19: a render changes nothing but the response: over every request step
\* the route table (entries, order, metadata), the tag list and the
\* descriptions bound to the generators are what they were before it.
C19_RenderReadsOnly ==
    [][last'.op = "get" =>
           /\ routes' = routes
           /\ openapi_tags' = openapi_tags
           /\ generators' = generators]_vars

\* a second request in a row was served by a bound generator on a host with
\* routes of its own and a tag list of its own
C19_Witness ==
    /\ last.op = "get"
    /\ last.after = "get"
    /\ generators[last.generator].app /= None
    /\ InTable(UserRoute)
    /\ InTable(ReservedNameRoute)
    /\ openapi_tags = PyList(<<ExistingTag, CustomLlmsTag>>)

\* C18: whatever happens after a call of add_llms_txt returned (routes
\* registered, further calls with another description, the caller changing
\* the sections mapping or the link dictionaries it passed), the generator of
\* that call renders the title, the summary, the notes and the sections that
\* were passed to the call.
C18_DescriptionBoundAtSetup ==
    \A g \in 1..Len(generators) :
        LET lines == Rendered(g)
            call == callers[g].call
            notes == IF call.notes = None THEN <<>> ELSE call.notes.list
        IN /\ TextsOf(lines, {"title"}) = <<"# " \o call.title>>
           /\ TextsOf(lines, {"summary"}) = <<call.summary>>
           /\ TextsOf(lines, {"note"}) = [k \in 1..Len(notes) |-> "- " \o notes[k]]
           /\ TextsOf(lines, {"section", "link"}) = ExpectedRaw(RawItems(call.sections))

\* the first endpoint served a request after a second call with another
\* description, a route registered later, and its caller's change of the
\* sections
C18_Witness ==
    /\ last.op = "get"
    /\ last.generator = 1
    /\ Len(generators) = 2
    /\ callers[1].call /= callers[2].call
    /\ callers[1].sections /= callers[1].call.sections
    /\ \E i, j \in 1..Len(routes) :
           i < j /\ IsDocEndpoint(routes[i]) /\ routes[j] = UserRoute

\* the start of a parameter line, up to the description
ParamLinePrefix(name, type, required) ==
    "- " \o BackTick \o name \o BackTick \o " (" \o type \o ", "
    \o (IF required THEN "required" ELSE "optional") \o "): "

\* C21: the block of a rendered route holds "**Parameters:**" exactly when
\* the list _get_endpoint_params returns for the route is not empty, once, and
\* then, after a blank line, one line per entry of the list, in order:
\* "- ^<name>^ (<type>, required): <description>" for an entry whose required
\* flag is true, "... optional ..." otherwise, and a blank line; no other
\* parameter line is rendered.  The text after "): " is asserted for an
\* entry whose description is a string.
C21_ParametersBlock ==
    (last.op = "_generate_api_docs" /\ RenderedCase(last.case)) =>
        LET merged == GetEndpointParams(routes[1])
            lines == last.result
            Expected(k, text) ==
                LET prefix == ParamLinePrefix(merged[k].name, merged[k].type,
                                              merged[k].required)
                IN /\ StartsWith(text, prefix)
                   /\ merged[k].description /= None
                          => text = prefix \o merged[k].description.str
        IN /\ TextsOf(lines, {"params_header"})
                  = (IF Len(merged) > 0 THEN <<"**Parameters:**">> ELSE <<>>)
           /\ Len(TextsOf(lines, {"param"})) = Len(merged)
           /\ \A h \in 1..Len(lines) :
                  lines[h].part = "params_header" =>
                      /\ Len(lines) >= h + Len(merged) + 2
                      /\ lines[h + 1] = Blank
                      /\ \A k \in 1..Len(merged) :
                             /\ lines[h + 1 + k].part = "param"
                             /\ Expected(k, lines[h + 1 + k].text)
                      /\ lines[h + Len(merged) + 2] = Blank

\* a route was rendered with an optional and a required parameter
C21_Witness ==
    /\ last.op = "_generate_api_docs"
    /\ RenderedCase(last.case)
    /\ TextsOf(last.result, {"param"})
           = <<"- ^q^ (Optional[str], optional): Search query",
               "- ^book_id^ (int, required): The ID of the book",
               "- ^chapter_id^ (str, required): Path parameter: chapter_id">>

\* the names of the descriptors that have one, in the order of the descriptors
RECURSIVE DeclaredNames(_)
DeclaredNames(params) ==
    IF Len(params) = 0 THEN <<>>
    ELSE (IF GetAttr(Head(params), "name", "") /= "" THEN <<Head(params).name>> ELSE <<>>)
         \o DeclaredNames(Tail(params))

\* the names of seq that are not in names, in the order of seq
RECURSIVE Without(_, _)
Without(seq, names) ==
    IF Len(seq) = 0 THEN <<>>
    ELSE (IF InSeq(Head(seq), names) THEN <<>> ELSE <<Head(seq)>>)
         \o Without(Tail(seq), names)

\* C22: the names of the entries _get_endpoint_params returns are the names
\* of the framework's descriptors, in the order the framework lists them,
\* followed by the placeholders of the path that no descriptor names, from
\* left to right.
C22_MergedOrder ==
    last.op = "_get_endpoint_params" =>
        LET declared == DeclaredNames(Metadata(last.case))
        IN [i \in 1..Len(last.result) |-> last.result[i].name]
               = declared \o Without(last.case.path.placeholders, declared)

\* a query parameter and book_id were declared, in that order, for
\* /books/{book_id}/chapters/{chapter_id}
C22_Witness ==
    /\ last.op = "_get_endpoint_params"
    /\ DeclaredNames(Metadata(last.case)) = <<"q", "book_id">>
    /\ last.case.path.placeholders = <<"book_id", "chapter_id">>
    /\ Len(last.result) = 3
    /\ last.result[3].name = "chapter_id"

\* C23: generate() returns the document for every route, whatever optional
\* attribute the route or a parameter descriptor lacks, and each absent
\* attribute reads as its default: no methods, GET; no description, no
\* description line; neither summary nor handler, the humanized last segment
\* of the path or no summary line; no dependant, the placeholders of the path
\* only; a descriptor without type_, an empty type label; without required,
\* "optional"; without field_info, an empty description; and a descriptor
\* without a name has no line.
C23_AbsentMetadataDefaults ==
    last.op = "generate" =>
        LET case == last.case
            lines == last.result
            path == case.path
            meta == Metadata(case)
            declared == DeclaredNames(meta)
            params == TextsOf(lines, {"param"})
        IN /\ TextsOf(lines, {"title", "summary"}) = <<"# Test API", "A test API for testing">>
           /\ ~RenderedCase(case) => TextsOf(lines, ApiParts) = <<>>
           /\ RenderedCase(case) =>
                  /\ "methods" \in case.missing
                         => TextsOf(lines, {"endpoint"}) = <<"### GET " \o path.path>>
                  /\ "description" \in case.missing => ~HasPart(lines, "ep_description")
                  /\ ("summary" \in case.missing /\ "endpoint" \in case.missing)
                         => TextsOf(lines, {"ep_summary"})
                                = (IF path.last_part = "" THEN <<>> ELSE <<path.last_part>>)
                  /\ "dependant" \in case.missing
                         => params = [i \in 1..Len(path.placeholders) |->
                                         ParamLinePrefix(path.placeholders[i], "str", TRUE)
                                         \o "Path parameter: " \o path.placeholders[i]]
                  /\ Len(params) = Len(declared) + Len(Without(path.placeholders, declared))
                  /\ \A k \in 1..Len(meta) :
                         LET param == meta[k]
                             prefix ==
                                 ParamLinePrefix(
                                     param.name,
                                     IF "type_" \in DOMAIN param
                                     THEN TypeLabel(param.type_) ELSE "",
                                     "required" \in DOMAIN param /\ param.required)
                         IN (GetAttr(param, "name", "") /= ""
                             /\ ~InSeq(param.name, path.placeholders)) =>
                                \E j \in 1..Len(params) :
                                    /\ StartsWith(params[j], prefix)
                                    /\ "field_info" \notin DOMAIN param => params[j] = prefix

\* the document of a route without a methods attribute whose dependant lists
\* a descriptor that has only a name, one without a name and one whose field
\* info has no description
C23_Witness ==
    /\ last.op = "generate"
    /\ last.case.missing = {"methods"}
    /\ Metadata(last.case) = <<LimitParam, UnnamedParam, SortParam>>
    /\ TextsOf(last.result, {"endpoint", "param"})
           = <<"### GET /{id}",
               "- ^limit^ (, optional): ",
               "- ^sort^ (int, required): ",
               "- ^id^ (str, required): Path parameter: id">>

\* the descriptor carries no description: it has no field info, or a field
\* info without a description or with the description None
Undescribed(param) ==
    LET field_info == GetAttr(param, "field_info", None)
    IN \/ field_info = None
       \/ "description" \notin DOMAIN field_info
       \/ field_info.description = None

\* C24: a descriptor that has a name no placeholder of the path has, and
\* carries no description, gives an entry whose description is the empty
\* string and a line that ends with "): ".
C24_NoDescriptionIsEmpty ==
    \A k \in 1..Len(Metadata(last.case)) :
        LET param == Metadata(last.case)[k]
            prefix ==
                ParamLinePrefix(param.name,
                                IF "type_" \in DOMAIN param
                                THEN TypeLabel(param.type_) ELSE "",
                                "required" \in DOMAIN param /\ param.required)
        IN (/\ GetAttr(param, "name", "") /= ""
            /\ ~InSeq(param.name, last.case.path.placeholders)
            /\ Undescribed(param)) =>
               /\ last.op = "_get_endpoint_params" =>
                      \A j \in 1..Len(last.result) :
                          last.result[j].name = param.name
                              => last.result[j].description = PyStr("")
               /\ (last.op = "_generate_api_docs" /\ RenderedCase(last.case)) =>
                      \E j \in 1..Len(last.result) :
                          last.result[j] = Line("param", prefix)

\* C25: when add_llms_txt raises (sections that are not a mapping, a section
\* whose value is not a list, notes that ProjectDescription rejects), the
\* route table and the tag list of the host are what they were before the
\* call.
C25_RaiseLeavesHost ==
    (last.op = "add_llms_txt" /\ last.raised) =>
        /\ routes = last.pre_routes
        /\ openapi_tags = last.pre_tags

\* a second call raised on its notes, on a host that has a route of its own,
\* the endpoint of the first call and a tag list
C25_Witness ==
    /\ last.op = "add_llms_txt"
    /\ last.raised
    /\ ValidationRaises(last.call)
    /\ ~SetupRaises(last.call.sections)
    /\ Len(generators) = 1
    /\ Len(routes) = 2
    /\ openapi_tags /= None

\* both calls have returned
BothReturned == \A t \in Threads : threads[t].pc = "done"

\* each call evaluated the test for the tag before either appended
CheckedBeforeAppends == \A t \in Threads : threads[t].before_append

\* one call began after the other had returned
OneAfterTheOther == \E t \in Threads : threads[t].after_other

\* C26: when two calls of add_llms_txt on a host whose tag list names no
\* LLMs.txt have both returned, and each evaluated the test for the tag before
\* either appended, the tag list holds two entries named LLMs.txt; when one
\* call began after the other returned, it holds one.
C26_CheckThenAppend ==
    BothReturned =>
        /\ (/\ CheckedBeforeAppends
            /\ \A t \in Threads : LlmsTagCount(threads[t].pre_tags) = 0)
               => LlmsTagCount(openapi_tags) = 2
        /\ OneAfterTheOther => LlmsTagCount(openapi_tags) = 1

\* both calls returned after each found no tag and appended one, on a host
\* constructed with two tags of other names
C26_Witness ==
    /\ BothReturned
    /\ CheckedBeforeAppends
    /\ ~OneAfterTheOther
    /\ TagList(openapi_tags) = <<ExistingTag, UnnamedTag, LlmsTag, LlmsTag>>
    /\ Len(routes) = 2

\* the descriptors that have a name, in the order of the descriptors
RECURSIVE NamedDescriptors(_)
NamedDescriptors(params) ==
    IF Len(params) = 0 THEN <<>>
    ELSE (IF GetAttr(Head(params), "name", "") /= "" THEN <<Head(params)>> ELSE <<>>)
         \o NamedDescriptors(Tail(params))

\* C27: the type of the entry of a framework descriptor is the string of the
\* descriptor's type without any "typing." and without the class wrapper:
\* "<class 'int'>" gives "int", "typing.Optional[str]" gives "Optional[str]",
\* "typing.Dict[str, typing.List[int]]" gives "Dict[str, List[int]]", and
\* "int" stays "int".
C27_TypeLabel ==
    last.op = "_get_endpoint_params" =>
        LET named == NamedDescriptors(Metadata(last.case))
        IN /\ Len(last.result) >= Len(named)
           /\ \A j \in 1..Len(named) :
                  "type_" \in DOMAIN named[j]
                      => last.result[j].type = TypeLabel(named[j].type_)

\* the parameters of a route were extracted whose descriptor has a type
\* that names typing twice
C27_Witness ==
    /\ last.op = "_get_endpoint_params"
    /\ Metadata(last.case) = <<TagsParam>>
    /\ TagsParam.type_ = "typing.Dict[str, typing.List[int]]"
    /\ Len(last.result) >= 1
    /\ last.result[1].type = "Dict[str, List[int]]"

====
